---- MODULE Spec2Model ----
(***************************************************************************)
(* Model of the EtherNet/IP session client of cpppo-go (package cpppo):    *)
(* Client.RegisterSession, unregisterSession, ListIdentity, SendRRData,    *)
(* SendUnitData and Close, called by concurrent goroutines on one Client   *)
(* whose TCP peer is an arbitrary server.                                  *)
(***************************************************************************)
EXTENDS Integers, Sequences, FiniteSets, TLC

(* ------------------------------ bounds --------------------------------- *)
NumThreads == 2
MaxCalls == 2
MaxData == 1

Threads == 1..NumThreads

(* ------------------------- protocol constants -------------------------- *)
EIPCommandNOP == 0
EIPCommandListIdentity == 99
EIPCommandRegisterSession == 101
EIPCommandUnregister == 102
EIPCommandSendRRData == 111
EIPCommandSendUnitData == 112

Ops == {"RegisterSession", "ListIdentity", "SendRRData", "SendUnitData", "Close"}
SendOps == {"SendRRData", "SendUnitData"}
ReplyOps == {"RegisterSession", "ListIdentity", "SendRRData"}

(* what the server may put in a reply *)
ServerHandles == {0, 16909060}
ReplyStatuses == {0, 1}
ReplyLens == {0, 4, 6, 7}
DataBytes == {170}

(* --------------------------- byte helpers ------------------------------ *)
Zeros(n) == [i \in 1..n |-> 0]

PutUint16(v) == <<v % 256, (v \div 256) % 256>>

PutUint32(v) ==
  <<v % 256, (v \div 256) % 256, (v \div 65536) % 256, (v \div 16777216) % 256>>

Uint16(b, i) == b[i] + 256 * b[i + 1]

Uint32(b, i) == b[i] + 256 * b[i + 1] + 65536 * b[i + 2] + 16777216 * b[i + 3]

Drop(s, n) == SubSeq(s, n + 1, Len(s))

SeqsUpTo(S, n) == UNION {[1..k -> S] : k \in 0..n}

(* the 24-byte encapsulation header as the client lays it out *)
EIPHeader(command, length, handle, status) ==
  PutUint16(command) \o PutUint16(length) \o PutUint32(handle)
    \o PutUint32(status) \o Zeros(8) \o PutUint32(0)

(* ------------------------- frames the client builds -------------------- *)
RegisterFrame == EIPHeader(EIPCommandRegisterSession, 4, 0, 0) \o PutUint16(1) \o PutUint16(0)

(* the Unregister frame built without the session handle *)
UnregisterFrame_NoHandle(h) == EIPHeader(EIPCommandUnregister, 0, 0, 0)

UnregisterFrame(h) == EIPHeader(EIPCommandUnregister, 0, h, 0)

ListIdentityFrame == EIPHeader(EIPCommandListIdentity, 0, 0, 0)

(* the Send RR/Unit Data frame with timeout and interface handle swapped *)
SendDataFrame_PrefixSwapped(command, h, interfaceHandle, timeout, data) ==
  EIPHeader(command, (6 + Len(data)) % 65536, h, 0)
    \o PutUint16(timeout) \o PutUint32(interfaceHandle) \o data

SendDataFrame(command, h, interfaceHandle, timeout, data) ==
  EIPHeader(command, (6 + Len(data)) % 65536, h, 0)
    \o PutUint32(interfaceHandle) \o PutUint16(timeout) \o data

OpCommand(o) ==
  CASE o = "RegisterSession" -> EIPCommandRegisterSession
    [] o = "ListIdentity" -> EIPCommandListIdentity
    [] o = "SendRRData" -> EIPCommandSendRRData
    [] o = "SendUnitData" -> EIPCommandSendUnitData
    [] OTHER -> EIPCommandUnregister

Request(o, h, data) ==
  CASE o = "RegisterSession" -> RegisterFrame
    [] o = "ListIdentity" -> ListIdentityFrame
    [] OTHER -> SendDataFrame(OpCommand(o), h, 0, 10, data)

(* ------------------------- guards under the lock ----------------------- *)
(* RegisterSession without its `already registered` early return *)
AlreadyRegistered_Skipped(h) == FALSE

AlreadyRegistered(h) == h # 0

(* SendRRData / SendUnitData without their `session not registered` check *)
NotRegistered_Skipped(h) == FALSE

NotRegistered(h) == h = 0

Precheck(o, h) ==
  CASE o = "RegisterSession" /\ AlreadyRegistered(h) -> "nil"
    [] o \in SendOps /\ NotRegistered(h) -> "not_registered"
    [] OTHER -> "proceed"

(* ------------------------- reply validation ---------------------------- *)
RegisterVerdict(hdr) ==
  CASE Uint16(hdr, 1) # EIPCommandRegisterSession -> "command"
    [] Uint32(hdr, 9) # 0 -> "status"
    [] Uint16(hdr, 3) # 4 -> "length"
    [] OTHER -> "nil"

(* reply validation without the status check *)
HeaderVerdict_NoStatus(command, hdr) ==
  CASE Uint16(hdr, 1) # command -> "command"
    [] OTHER -> "nil"

HeaderVerdict(command, hdr) ==
  CASE Uint16(hdr, 1) # command -> "command"
    [] Uint32(hdr, 9) # 0 -> "status"
    [] OTHER -> "nil"

HeaderSize(o) == IF o = "RegisterSession" THEN 28 ELSE 24

(* net.Conn.Close on a connection that is already closed reports an error *)
ConnCloseResult(wasClosed) == IF wasClosed THEN "closed_conn" ELSE "nil"

(* ------------------------------ CIP layer ------------------------------ *)
CIPServiceReadTag == 76
CIPServiceWriteTag == 77
CIPPathTypeSymbolic == 145
CIPDataTypeBOOL == 193
CIPDataTypeSINT == 194
CIPDataTypeINT == 195
CIPDataTypeDINT == 196
CIPDataTypeREAL == 202
CIPDataTypeDWORD == 211
CIPDataTypeSTRING == 208

NilErr == [kind |-> "nil"]
Err(msg) == [kind |-> "error", msg |-> msg]
NoValue == [type |-> "nil"]

(* descriptions of the general statuses 0x01..0x22 and 0x25..0x29 *)
StatusMsgLow ==
  << "Connection failure", "Resource unavailable", "Invalid parameter value",
     "Path segment error", "Path destination unknown", "Partial transfer",
     "Connection lost", "Service not supported", "Invalid attribute value",
     "Attribute list error", "Already in requested mode/state",
     "Object state conflict", "Object already exists", "Attribute not settable",
     "Privilege violation", "Device state conflict", "Reply data too large",
     "Fragmentation of a primitive value", "Not enough data",
     "Attribute not supported", "Too much data", "Object does not exist",
     "Service fragmentation sequence not in progress", "No stored attribute data",
     "Store operation failure", "Routing failure, request packet too large",
     "Routing failure, response packet too large",
     "Missing attribute list entry data", "Invalid attribute value list",
     "Embedded service error", "Vendor specific error", "Invalid parameter",
     "Write-once value or medium already written", "Invalid reply received" >>

StatusMsgHigh ==
  << "Key failure in path", "Path size invalid", "Unexpected attribute in list",
     "Invalid member ID", "Member not settable" >>

CIPStatusMsg(status) ==
  CASE status \in 1..34 -> StatusMsgLow[status]
    [] status \in 37..41 -> StatusMsgHigh[status - 36]
    [] status = 255 -> "General Error"
    [] OTHER -> "Unknown error"

(* CIPStatusToError that reports every non-zero status as code 1 *)
CIPStatusToError_CodeLost(status) ==
  IF status = 0 THEN NilErr
  ELSE [kind |-> "CIPError", Code |-> 1, ExtendedMsg |-> CIPStatusMsg(status)]

CIPStatusToError(status) ==
  IF status = 0 THEN NilErr
  ELSE [kind |-> "CIPError", Code |-> status, ExtendedMsg |-> CIPStatusMsg(status)]

(* response[0]&0x80 *)
ReplyBit(b) == ((b \div 128) % 2) * 128

(* ParseCIPResponse without the reply-bit check *)
ParseCIPResponse_NoReplyBit(response) ==
  IF Len(response) < 2 THEN [data |-> <<>>, err |-> Err("response too short")]
  ELSE IF CIPStatusToError(response[2]) # NilErr
    THEN [data |-> <<>>, err |-> CIPStatusToError(response[2])]
  ELSE [data |-> Drop(response, 2), err |-> NilErr]

ParseCIPResponse(response) ==
  IF Len(response) < 2 THEN [data |-> <<>>, err |-> Err("response too short")]
  ELSE IF ReplyBit(response[1]) = 0 THEN [data |-> <<>>, err |-> Err("not a response")]
  ELSE IF CIPStatusToError(response[2]) # NilErr
    THEN [data |-> <<>>, err |-> CIPStatusToError(response[2])]
  ELSE IF Len(response) <= 2 THEN [data |-> <<>>, err |-> NilErr]
  ELSE [data |-> Drop(response, 2), err |-> NilErr]

(* fixed-width conversions of the decoded bytes *)
Int8(b) == IF b >= 128 THEN b - 256 ELSE b

(* the u16 taken as is, without the int16 conversion *)
Int16_Unsigned(u) == u

Int16(u) == IF u >= 32768 THEN u - 65536 ELSE u

Int32(b, i) ==
  LET low == b[i] + 256 * b[i + 1] + 65536 * b[i + 2] + 16777216 * (b[i + 3] % 128)
  IN IF b[i + 3] >= 128 THEN (low - 2147483647) - 1 ELSE low

(* a uint32 as its two 16-bit halves *)
Uint32Wide(b, i) == [lo |-> Uint16(b, i), hi |-> Uint16(b, i + 2)]

(* a float32 is represented by its IEEE-754 bit pattern, a uint32 in halves *)
Wide(n) == [lo |-> n % 65536, hi |-> n \div 65536]

PutUint32Wide(w) == PutUint16(w.lo) \o PutUint16(w.hi)

MSB(n) == CHOOSE k \in 0..30 : 2^k <= n /\ (k = 30 \/ n < 2^(k + 1))

(* q = n >> s rounded to nearest, ties to even, given the remainder r of s bits *)
RoundHalfEven(q, r, s) ==
  IF r > 2^(s - 1) \/ (r = 2^(s - 1) /\ q % 2 = 1) THEN q + 1 ELSE q

(* the bit pattern of the float32 nearest to the integer k-bit-leading n with
   24-bit significand sig *)
PackFloat32(k, sig) ==
  IF sig = 16777216 THEN (127 + k + 1) * 8388608
  ELSE (127 + k) * 8388608 + (sig - 8388608)

(* the Go conversion float32(x) of a uint32 x: the nearest single *)
Float32OfUint32(w) ==
  IF w.hi = 0 /\ w.lo = 0 THEN Wide(0)
  ELSE IF w.hi < 32768
    THEN LET n == w.hi * 65536 + w.lo
             k == MSB(n)
         IN IF k <= 23 THEN Wide(PackFloat32(k, n * 2^(23 - k)))
            ELSE Wide(PackFloat32(k, RoundHalfEven(n \div 2^(k - 23), n % 2^(k - 23), k - 23)))
  ELSE Wide(PackFloat32(31, RoundHalfEven(w.hi * 256 + w.lo \div 256, w.lo % 256, 8)))

(* float32FromUint32Go: `return float32(bits)`, a numeric conversion *)
float32FromUint32(bits) == [type |-> "float32", bits |-> Float32OfUint32(bits)]

(* math.Float32frombits / math.Float32bits keep the bit pattern *)
Float32frombits(bits) == [type |-> "float32", bits |-> bits]

Float32bits(value) == value.bits

TypeMismatch(expected, actual) ==
  [kind |-> "error", msg |-> "data type mismatch", expected |-> expected, actual |-> actual]

Value(v) == [value |-> v, err |-> NilErr]
Fail(e) == [value |-> NoValue, err |-> e]

DecodeTyped(data, dataType) ==
  CASE dataType = CIPDataTypeBOOL ->
         IF Len(data) < 3 THEN Fail(Err("not enough data for BOOL"))
         ELSE Value([type |-> "bool", v |-> data[3] # 0])
    [] dataType = CIPDataTypeSINT ->
         IF Len(data) < 3 THEN Fail(Err("not enough data for SINT"))
         ELSE Value([type |-> "int8", v |-> Int8(data[3])])
    [] dataType = CIPDataTypeINT ->
         IF Len(data) < 4 THEN Fail(Err("not enough data for INT"))
         ELSE Value([type |-> "int16", v |-> Int16(Uint16(data, 3))])
    [] dataType = CIPDataTypeDINT ->
         IF Len(data) < 6 THEN Fail(Err("not enough data for DINT"))
         ELSE Value([type |-> "int32", v |-> Int32(data, 3)])
    [] dataType = CIPDataTypeREAL ->
         IF Len(data) < 6 THEN Fail(Err("not enough data for REAL"))
         ELSE Value(float32FromUint32(Uint32Wide(data, 3)))
    [] dataType = CIPDataTypeDWORD ->
         IF Len(data) < 6 THEN Fail(Err("not enough data for DWORD"))
         ELSE Value([type |-> "uint32", v |-> Uint32Wide(data, 3)])
    [] dataType = CIPDataTypeSTRING ->
         IF Len(data) < 4 THEN Fail(Err("not enough data for STRING header"))
         ELSE LET length == Uint16(data, 3)
                  end == (4 + length) % 65536     \* 4+length is uint16 arithmetic
              IN IF Len(data) < end THEN Fail(Err("string data truncated"))
                 ELSE IF end < 4 THEN Fail([kind |-> "panic", msg |-> "slice bounds out of range"])
                 ELSE Value([type |-> "string", v |-> SubSeq(data, 5, end)])
    [] OTHER -> Value([type |-> "bytes", v |-> Drop(data, 2)])

(* ParseCIPReadResponse without the data-type comparison *)
ParseCIPReadResponse_NoTypeCheck(response, dataType) ==
  LET r == ParseCIPResponse(response) IN
  IF r.err # NilErr THEN Fail(r.err)
  ELSE IF Len(r.data) < 2 THEN Fail(Err("response data too short"))
  ELSE DecodeTyped(r.data, dataType)

ParseCIPReadResponse(response, dataType) ==
  LET r == ParseCIPResponse(response) IN
  IF r.err # NilErr THEN Fail(r.err)
  ELSE IF Len(r.data) < 2 THEN Fail(Err("response data too short"))
  ELSE IF r.data[1] # dataType THEN Fail(TypeMismatch(dataType, r.data[1]))
  ELSE DecodeTyped(r.data, dataType)

(* BuildCIPPath without the pad byte *)
BuildCIPPath_NoPad(tagName) ==
  IF tagName = <<>> THEN <<>>
  ELSE <<CIPPathTypeSymbolic, Len(tagName) % 256>> \o tagName

BuildCIPPath(tagName) ==
  IF tagName = <<>> THEN <<>>
  ELSE <<CIPPathTypeSymbolic, Len(tagName) % 256>> \o tagName
         \o (IF Len(tagName) % 2 # 0 THEN <<0>> ELSE <<>>)

BuildCIPReadRequest(tagName, elements) ==
  LET path == BuildCIPPath(tagName) IN
  <<CIPServiceReadTag, ((Len(path) + 1) \div 2) % 256>> \o path \o PutUint16(elements)

(* BuildCIPWriteRequest with the element count before the data type *)
BuildCIPWriteRequest_CountFirst(tagName, dataType, data) ==
  LET path == BuildCIPPath(tagName) IN
  <<CIPServiceWriteTag, ((Len(path) + 1) \div 2) % 256>> \o path \o <<1, dataType>> \o data

BuildCIPWriteRequest(tagName, dataType, data) ==
  LET path == BuildCIPPath(tagName) IN
  <<CIPServiceWriteTag, ((Len(path) + 1) \div 2) % 256>> \o path \o <<dataType, 1>> \o data

(* the Encode / Decode helpers; uint16(v), uint32(v) of a negative v are v
   modulo 2^16, 2^32, which the byte extraction by % 256 already yields *)
EncodeBool(value) == IF value THEN <<1>> ELSE <<0>>

EncodeInt16(value) == PutUint16(value % 65536)

EncodeInt32(value) == PutUint32(value)

EncodeFloat32(value) == PutUint32Wide(Float32bits(value))

DecodeBool(data) ==
  IF Len(data) < 1 THEN Fail(Err("not enough data to decode bool"))
  ELSE Value([type |-> "bool", v |-> data[1] # 0])

DecodeInt16(data) ==
  IF Len(data) < 2 THEN Fail(Err("not enough data to decode int16"))
  ELSE Value([type |-> "int16", v |-> Int16(Uint16(data, 1))])

DecodeInt32(data) ==
  IF Len(data) < 4 THEN Fail(Err("not enough data to decode int32"))
  ELSE Value([type |-> "int32", v |-> Int32(data, 1)])

DecodeFloat32(data) ==
  IF Len(data) < 4 THEN Fail(Err("not enough data to decode float32"))
  ELSE Value(Float32frombits(Uint32Wide(data, 1)))


(* ------------------------------- state --------------------------------- *)
VARIABLES
  sessionHandle,  \* Client.sessionHandle
  closed,         \* the TCP stream has been closed by conn.Close
  mu,             \* Client.mu: 0 when free, else the goroutine holding it
  inbuf,          \* bytes the server has sent and the client has not read
  sent,           \* the frames the client has written, in order
  lastIO,         \* the last blocking TCP step and whether its deadline was re-armed just before
  pc,             \* position of each goroutine inside its call
  call,           \* per goroutine: operation, argument and locals
  result,         \* per goroutine: the return value of its last call
  registered,     \* history: RegisterSession succeeded, no Unregister since
  srvPending,     \* command of the request the server has not answered, or 0
  closeCalls,     \* number of conn.Close invocations
  calls,          \* number of calls issued (bounded by MaxCalls)
  cip,            \* the last application of a CIP-layer function: name, arguments, result
  backoff,        \* the running ExponentialBackoff call
  monitor,        \* the TagMonitor of the tag-discovery example and its goroutine
  lr              \* the fanuc LogReader, its goroutine, its connections and the log server

vars == <<sessionHandle, closed, mu, inbuf, sent, lastIO, pc, call, result,
          registered, srvPending, closeCalls, calls, cip, backoff, monitor, lr>>

NoOut == [value |-> NoValue, err |-> [kind |-> "none"]]
NoCall == [op |-> "none", data |-> <<>>, respLen |-> 0, got |-> 0, need |-> 0,
           afterClose |-> FALSE,
           plc |-> "none", dataType |-> 0, value |-> NoValue,
           plcOut |-> NoOut]                      \* the PLCClient call made, if any
NoIO == [step |-> "none", rearmed |-> FALSE]
NoResult == [op |-> "none", err |-> "none", data |-> <<>>]
NoCIP == [fn |-> "none"]
NoBackoff == [pc |-> "none"]
NoMonitor == [pc |-> "none"]
NoLogReader == [pc |-> "none"]

Init ==
  /\ sessionHandle = 0
  /\ closed = FALSE
  /\ mu = 0
  /\ inbuf = <<>>
  /\ sent = <<>>
  /\ lastIO = NoIO
  /\ pc = [t \in Threads |-> "idle"]
  /\ call = [t \in Threads |-> NoCall]
  /\ result = [t \in Threads |-> NoResult]
  /\ registered = FALSE
  /\ srvPending = 0
  /\ closeCalls = 0
  /\ calls = 0
  /\ cip = NoCIP
  /\ backoff = NoBackoff
  /\ monitor = NoMonitor
  /\ lr = NoLogReader

(* the call of goroutine t returns err (and data) and releases nothing; a
   call made by PLCClient.ReadTag / WriteTag returns into that method *)
Return(t, err, data) ==
  /\ pc' = [pc EXCEPT ![t] = IF call[t].plc = "none" THEN "idle" ELSE "plc_parse"]
  /\ result' = [result EXCEPT ![t] = [op |-> call[t].op, err |-> err, data |-> data]]

(* ------------------------------ actions -------------------------------- *)
(* a goroutine calls one of the Client's methods *)
Call(t) ==
  /\ UNCHANGED <<cip, backoff, monitor, lr>>
  /\ pc[t] = "idle"
  /\ calls < MaxCalls
  /\ \E o \in Ops, d \in SeqsUpTo(DataBytes, MaxData) :
       /\ o \notin SendOps => d = <<>>
       /\ call' = [call EXCEPT ![t] = [NoCall EXCEPT !.op = o, !.data = d,
                                                  !.afterClose = closeCalls > 0]]
       /\ pc' = [pc EXCEPT ![t] = IF o = "Close" THEN "close_check" ELSE "lock"]
  /\ calls' = calls + 1
  /\ UNCHANGED <<sessionHandle, closed, mu, inbuf, sent, lastIO, result,
                 registered, srvPending, closeCalls>>

(* c.mu.Lock() and the check made first under the lock *)
Lock(t) ==
  /\ UNCHANGED <<cip, backoff, monitor, lr>>
  /\ pc[t] = "lock"
  /\ mu = 0
  /\ LET v == Precheck(call[t].op, sessionHandle) IN
       IF v = "proceed"
         THEN /\ mu' = t
              /\ pc' = [pc EXCEPT ![t] = "write"]
              /\ UNCHANGED <<result, registered>>
         ELSE /\ Return(t, v, <<>>)
              /\ registered' = IF call[t].op = "RegisterSession" THEN TRUE ELSE registered
              /\ UNCHANGED mu
  /\ UNCHANGED <<sessionHandle, closed, inbuf, sent, lastIO, call, srvPending,
                 closeCalls, calls>>

(* SetWriteDeadline, then conn.Write of the request frame *)
Write(t) ==
  /\ UNCHANGED <<cip, backoff, monitor, lr>>
  /\ pc[t] = "write"
  /\ \/ /\ ~closed
        /\ sent' = Append(sent, Request(call[t].op, sessionHandle, call[t].data))
        /\ IF call[t].op = "SendUnitData"
             THEN /\ Return(t, "nil", <<>>)
                  /\ mu' = 0
                  /\ UNCHANGED srvPending
             ELSE /\ pc' = [pc EXCEPT ![t] = "read_hdr"]
                  /\ srvPending' = OpCommand(call[t].op)
                  /\ UNCHANGED <<result, mu>>
     \/ /\ Return(t, "io", <<>>)
        /\ mu' = 0
        /\ UNCHANGED <<sent, srvPending>>
  /\ lastIO' = [step |-> "write", rearmed |-> TRUE]
  /\ UNCHANGED <<sessionHandle, closed, inbuf, call, registered, closeCalls, calls>>

(* SetReadDeadline, io.ReadFull of the reply header, header validation *)
ReadHeader(t) ==
  /\ UNCHANGED <<cip, backoff, monitor, lr>>
  /\ pc[t] = "read_hdr"
  /\ LET n == HeaderSize(call[t].op) IN
     \/ /\ ~closed
        /\ Len(inbuf) >= n
        /\ LET hdr == SubSeq(inbuf, 1, n)
               respLen == Uint16(hdr, 3)
               c1 == [call[t] EXCEPT !.respLen = respLen, !.got = n]
           IN
           /\ inbuf' = Drop(inbuf, n)
           /\ IF call[t].op = "RegisterSession"
                THEN LET v == RegisterVerdict(hdr) IN
                     /\ Return(t, v, <<>>)
                     /\ mu' = 0
                     /\ call' = [call EXCEPT ![t] = c1]
                     /\ sessionHandle' = IF v = "nil" THEN Uint32(hdr, 5) ELSE sessionHandle
                     /\ registered' = IF v = "nil" THEN TRUE ELSE registered
                ELSE LET v == HeaderVerdict(OpCommand(call[t].op), hdr) IN
                     /\ UNCHANGED <<sessionHandle, registered>>
                     /\ IF v # "nil"
                          THEN /\ Return(t, v, <<>>)
                               /\ mu' = 0
                               /\ call' = [call EXCEPT ![t] = c1]
                          ELSE /\ UNCHANGED <<result, mu>>
                               /\ IF call[t].op = "ListIdentity"
                                    THEN /\ pc' = [pc EXCEPT ![t] = "read_data"]
                                         /\ call' = [call EXCEPT ![t] = [c1 EXCEPT !.need = respLen]]
                                    ELSE /\ pc' = [pc EXCEPT ![t] = "read_prefix"]
                                         /\ call' = [call EXCEPT ![t] = c1]
     \/ /\ closed \/ Len(inbuf) < n
        /\ Return(t, "io", <<>>)
        /\ mu' = 0
        /\ inbuf' = IF closed THEN inbuf ELSE <<>>
        /\ call' = [call EXCEPT ![t].got = IF closed THEN 0 ELSE Len(inbuf)]
        /\ UNCHANGED <<sessionHandle, registered>>
  /\ lastIO' = [step |-> "read_hdr", rearmed |-> TRUE]
  /\ UNCHANGED <<closed, sent, srvPending, closeCalls, calls>>

(* SendRRData: io.ReadFull of the 6-byte interface handle and timeout *)
ReadPrefix(t) ==
  /\ UNCHANGED <<cip, backoff, monitor, lr>>
  /\ pc[t] = "read_prefix"
  /\ \/ /\ ~closed
        /\ Len(inbuf) >= 6
        /\ inbuf' = Drop(inbuf, 6)
        /\ IF call[t].respLen - 6 <= 0
             THEN /\ Return(t, "nil", <<>>)
                  /\ mu' = 0
                  /\ call' = [call EXCEPT ![t].got = @ + 6]
             ELSE /\ pc' = [pc EXCEPT ![t] = "read_data"]
                  /\ call' = [call EXCEPT ![t].got = @ + 6, ![t].need = call[t].respLen - 6]
                  /\ UNCHANGED <<result, mu>>
     \/ /\ closed \/ Len(inbuf) < 6
        /\ Return(t, "io", <<>>)
        /\ mu' = 0
        /\ inbuf' = IF closed THEN inbuf ELSE <<>>
        /\ call' = [call EXCEPT ![t].got = @ + (IF closed THEN 0 ELSE Len(inbuf))]
  /\ lastIO' = [step |-> "read_prefix", rearmed |-> FALSE]
  /\ UNCHANGED <<sessionHandle, closed, sent, registered, srvPending,
                 closeCalls, calls>>

(* io.ReadFull of the reply data (ListIdentity payload, SendRRData payload) *)
ReadData(t) ==
  /\ UNCHANGED <<cip, backoff, monitor, lr>>
  /\ pc[t] = "read_data"
  /\ LET n == call[t].need IN
     \/ /\ n = 0 \/ (~closed /\ Len(inbuf) >= n)
        /\ inbuf' = Drop(inbuf, n)
        /\ Return(t, "nil", SubSeq(inbuf, 1, n))
        /\ call' = [call EXCEPT ![t].got = @ + n]
     \/ /\ n > 0
        /\ closed \/ Len(inbuf) < n
        /\ Return(t, "io", <<>>)
        /\ inbuf' = IF closed THEN inbuf ELSE <<>>
        /\ call' = [call EXCEPT ![t].got = @ + (IF closed THEN 0 ELSE Len(inbuf))]
  /\ mu' = 0
  /\ lastIO' = [step |-> "read_data", rearmed |-> FALSE]
  /\ UNCHANGED <<sessionHandle, closed, sent, registered, srvPending,
                 closeCalls, calls>>

(* Close: `if c.sessionHandle != 0`, read without holding c.mu *)
CloseCheck(t) ==
  /\ UNCHANGED <<cip, backoff, monitor, lr>>
  /\ pc[t] = "close_check"
  /\ pc' = [pc EXCEPT ![t] = IF sessionHandle # 0 THEN "unreg_lock" ELSE "close_conn"]
  /\ UNCHANGED <<sessionHandle, closed, mu, inbuf, sent, lastIO, call, result,
                 registered, srvPending, closeCalls, calls>>

(* unregisterSession: c.mu.Lock() and the check under the lock *)
UnregLock(t) ==
  /\ UNCHANGED <<cip, backoff, monitor, lr>>
  /\ pc[t] = "unreg_lock"
  /\ mu = 0
  /\ IF sessionHandle = 0
       THEN /\ pc' = [pc EXCEPT ![t] = "close_conn"]
            /\ UNCHANGED mu
       ELSE /\ pc' = [pc EXCEPT ![t] = "unreg_write"]
            /\ mu' = t
  /\ UNCHANGED <<sessionHandle, closed, inbuf, sent, lastIO, call, result,
                 registered, srvPending, closeCalls, calls>>

(* unregisterSession: SetWriteDeadline, conn.Write, then the handle is zeroed;
   a failed write makes unregisterSession, and so Close, return the error *)
UnregWrite(t) ==
  /\ UNCHANGED <<cip, backoff, monitor, lr>>
  /\ pc[t] = "unreg_write"
  /\ \/ /\ ~closed
        /\ sent' = Append(sent, UnregisterFrame(sessionHandle))
        /\ sessionHandle' = 0
        /\ registered' = FALSE
        /\ pc' = [pc EXCEPT ![t] = "close_conn"]
        /\ UNCHANGED result
     \/ /\ Return(t, "io", <<>>)
        /\ UNCHANGED <<sent, sessionHandle, registered>>
  /\ mu' = 0
  /\ lastIO' = [step |-> "write", rearmed |-> TRUE]
  /\ UNCHANGED <<closed, inbuf, call, srvPending, closeCalls, calls>>

(* Close: `return c.conn.Close()`, without holding c.mu *)
ConnClose(t) ==
  /\ UNCHANGED <<cip, backoff, monitor, lr>>
  /\ pc[t] = "close_conn"
  /\ Return(t, ConnCloseResult(closed), <<>>)
  /\ closed' = TRUE
  /\ closeCalls' = closeCalls + 1
  /\ UNCHANGED <<sessionHandle, mu, inbuf, sent, lastIO, call, registered,
                 srvPending, calls>>

(* the server answers the outstanding request with one whole frame *)
ServerReply ==
  /\ UNCHANGED <<cip, backoff, monitor, lr>>
  /\ srvPending # 0
  /\ ~closed
  /\ \E c \in {srvPending, EIPCommandNOP}, s \in ReplyStatuses, l \in ReplyLens,
        h \in (IF srvPending = EIPCommandRegisterSession THEN ServerHandles ELSE {0}) :
       inbuf' = inbuf \o EIPHeader(c, l, h, s) \o [i \in 1..l |-> 16 + i]
  /\ srvPending' = 0
  /\ UNCHANGED <<sessionHandle, closed, mu, sent, lastIO, pc, call, result,
                 registered, closeCalls, calls>>

Next ==
  \/ \E t \in Threads : Call(t)
  \/ \E t \in Threads : Lock(t)
  \/ \E t \in Threads : Write(t)
  \/ \E t \in Threads : ReadHeader(t)
  \/ \E t \in Threads : ReadPrefix(t)
  \/ \E t \in Threads : ReadData(t)
  \/ \E t \in Threads : CloseCheck(t)
  \/ \E t \in Threads : UnregLock(t)
  \/ \E t \in Threads : UnregWrite(t)
  \/ \E t \in Threads : ConnClose(t)
  \/ ServerReply

Spec == Init /\ [][Next]_vars

TypeOK ==
  /\ sessionHandle \in Nat
  /\ closed \in BOOLEAN
  /\ mu \in {0} \cup Threads
  /\ lastIO.rearmed \in BOOLEAN
  /\ calls \in 0..MaxCalls

(* ------------------------- properties of the session ------------------- *)
Returns(t) == pc[t] # "idle" /\ pc'[t] = "idle"

EncapErrors == {"command", "status", "length"}

(* C1: the session handle is non-zero exactly when a RegisterSession has
   succeeded and no Unregister has been performed since. *)
C1_HandleIffRegistered == (sessionHandle # 0) <=> registered

(* C2: SendRRData and SendUnitData entered with handle 0 return the
   `session not registered` error at once: nothing is written, nothing is
   read, and the client state is unchanged. *)
C2_SendNeedsSession ==
  [][\A t \in Threads :
       (pc[t] = "lock" /\ pc'[t] # "lock" /\ call[t].op \in SendOps /\ sessionHandle = 0)
         => /\ pc'[t] = "idle"
            /\ result'[t].err = "not_registered"
            /\ sent' = sent
            /\ inbuf' = inbuf
            /\ <<sessionHandle, closed, mu, registered>>' = <<sessionHandle, closed, mu, registered>>]_vars

C2_Witness ==
  \E t \in Threads : result[t].op \in SendOps /\ result[t].err = "not_registered"

(* C3: the stream accesses of two calls never overlap: while a call is between
   writing its request and finishing the read of its reply no other call
   writes, reads or closes the stream, and no call reads the session handle
   while another call holds the lock in a section that changes it. *)
InTransaction(u) == pc[u] \in {"read_hdr", "read_prefix", "read_data"}

TouchesStream(t) ==
  /\ pc[t] \in {"write", "read_hdr", "read_prefix", "read_data", "unreg_write", "close_conn"}
  /\ pc'[t] # pc[t]

ChangingHandle(u) ==
  /\ mu = u
  /\ \/ call[u].op = "RegisterSession" /\ pc[u] \in {"write", "read_hdr"}
     \/ pc[u] = "unreg_write"

C3_CallsSerialized ==
  [][\A t, u \in Threads :
       t # u => /\ TouchesStream(t) => ~InTransaction(u)
                /\ (pc[t] = "close_check" /\ pc'[t] # pc[t]) => ~ChangingHandle(u)]_vars

(* C4: a request/reply call that returns success or an encapsulation error
   while the stream is open has consumed the whole reply frame: 24 header
   bytes plus the number of payload bytes the length field states. *)
C4_ReplyFullyConsumed ==
  [][\A t \in Threads :
       (Returns(t) /\ InTransaction(t) /\ ~closed'
          /\ result'[t].err \in {"nil"} \cup EncapErrors)
         => call'[t].got = 24 + call'[t].respLen]_vars

(* C5: a call that returns because a TCP write or read failed leaves the
   session closed: handle 0 and the stream closed. *)
C5_IOFailureCloses ==
  [][\A t \in Threads :
       (Returns(t) /\ call[t].op \in ReplyOps \cup {"SendUnitData"} /\ result'[t].err = "io")
         => (sessionHandle' = 0 /\ closed')]_vars

(* C6: unregisterSession zeroes the handle whether or not writing the
   Unregister frame succeeds. *)
C6_UnregisterZeroesHandle ==
  [][\A t \in Threads :
       (pc[t] = "unreg_write" /\ pc'[t] # "unreg_write") => sessionHandle' = 0]_vars

(* C7: every Close has closed the TCP stream when it returns. *)
C7_CloseClosesStream ==
  [][\A t \in Threads : (Returns(t) /\ call[t].op = "Close") => closed']_vars

(* C8: Close is idempotent: the socket is never closed a second time, and a
   Close issued after a Close has closed the socket reports success, closes
   nothing again and writes no Unregister frame. *)
C8_CloseIdempotent ==
  [][/\ closeCalls' <= 1
     /\ \A t \in Threads :
          (Returns(t) /\ call[t].op = "Close" /\ call[t].afterClose)
            => (result'[t].err = "nil" /\ closeCalls' = closeCalls /\ sent' = sent)]_vars

(* C9: RegisterSession on a registered session returns nil without writing,
   reading or changing the handle. *)
C9_RegisterNoOp ==
  [][\A t \in Threads :
       (pc[t] = "lock" /\ pc'[t] # "lock" /\ call[t].op = "RegisterSession" /\ sessionHandle # 0)
         => /\ pc'[t] = "idle"
            /\ result'[t].err = "nil"
            /\ sent' = sent
            /\ inbuf' = inbuf
            /\ sessionHandle' = sessionHandle]_vars

C9_Witness ==
  \E t \in Threads :
    /\ pc[t] = "idle"
    /\ result[t].op = "RegisterSession" /\ result[t].err = "nil"
    /\ call[t].op = "RegisterSession" /\ call[t].got = 0
    /\ sessionHandle # 0

(* C10: RegisterSession succeeds only on a reply with length 4 and a non-zero
   handle, then holds the little-endian u32 at header bytes 4..8; when it
   returns an error the handle is still 0. *)
C10_RegisterAdoptsHandle ==
  [][\A t \in Threads :
       (Returns(t) /\ call[t].op = "RegisterSession" /\ pc[t] \in {"write", "read_hdr"})
         => IF result'[t].err = "nil"
              THEN /\ Len(inbuf) >= 28
                   /\ Uint16(inbuf, 3) = 4
                   /\ Uint32(inbuf, 5) # 0
                   /\ sessionHandle' = Uint32(inbuf, 5)
              ELSE sessionHandle' = 0]_vars

(* C12: a request/reply call goes on after its reply header only if the
   header's command equals the command sent and its status is 0; otherwise it
   returns an error and changes neither the session handle nor the connection. *)
C12_HeaderValidated ==
  [][\A t \in Threads :
       (pc[t] = "read_hdr" /\ pc'[t] # "read_hdr" /\ ~closed
          /\ Len(inbuf) >= HeaderSize(call[t].op))
         => LET ok == Uint16(inbuf, 1) = OpCommand(call[t].op) /\ Uint32(inbuf, 9) = 0 IN
            /\ result'[t].err = "nil" /\ pc'[t] = "idle" => ok
            /\ ~ok => /\ pc'[t] = "idle"
                      /\ result'[t].err \in {"command", "status"}
                      /\ sessionHandle' = sessionHandle
                      /\ closed' = closed]_vars

C12_Witness ==
  \E t \in Threads :
    /\ pc[t] = "idle" /\ ~closed
    /\ result[t].op \in ReplyOps /\ result[t].err \in {"command", "status"}

(* C14: the frame SendRRData writes has payload interface handle (u32 LE),
   timeout (u16 LE), then the caller's bytes; for a reply with length L >= 6
   it skips the 6-byte prefix and returns exactly the L - 6 bytes after it. *)
C14_PrefixAddedAndStripped ==
  [][\A t \in Threads :
       call[t].op = "SendRRData" =>
         /\ (pc[t] = "write" /\ sent' # sent) =>
              LET f == sent'[Len(sent')] IN
              /\ Len(f) = 30 + Len(call[t].data)
              /\ SubSeq(f, 25, 28) = <<0, 0, 0, 0>>
              /\ SubSeq(f, 29, 30) = <<10, 0>>
              /\ SubSeq(f, 31, Len(f)) = call[t].data
         /\ (pc[t] = "read_prefix" /\ pc'[t] # "read_prefix" /\ ~closed
               /\ Len(inbuf) >= 6 /\ call[t].respLen >= 6) =>
              /\ inbuf' = SubSeq(inbuf, 7, Len(inbuf))
              /\ call[t].respLen = 6 =>
                   (pc'[t] = "idle" /\ result'[t].err = "nil" /\ result'[t].data = <<>>)
         /\ (pc[t] = "read_data" /\ pc'[t] = "idle" /\ result'[t].err = "nil") =>
              /\ Len(result'[t].data) = call[t].respLen - 6
              /\ result'[t].data = SubSeq(inbuf, 1, call[t].respLen - 6)]_vars

C14_Witness ==
  \E t \in Threads :
    /\ pc[t] = "idle" /\ result[t].op = "SendRRData" /\ result[t].err = "nil"
    /\ result[t].data = <<23>>
    /\ \E i \in 1..Len(sent) : Uint16(sent[i], 1) = EIPCommandSendRRData /\ Len(sent[i]) = 31

(* C16, as claimed: while the session is registered with handle H every frame
   written carries H in header bytes 4..8, with zero sender context and options. *)
C16_EveryFrameCarriesHandle ==
  [][(sessionHandle # 0 /\ sent' # sent) =>
       LET f == sent'[Len(sent')] IN
       /\ Uint32(f, 5) = sessionHandle
       /\ SubSeq(f, 13, 24) = Zeros(12)]_vars

(* C16, amended: every Send RR Data, Send Unit Data and Unregister frame
   carries the session handle; a List Identity frame carries handle 0; sender
   context and options are zero in every frame. *)
C16_SessionFramesCarryHandle ==
  [][sent' # sent =>
       LET f == sent'[Len(sent')] IN
       /\ SubSeq(f, 13, 24) = Zeros(12)
       /\ Uint16(f, 1) \in {EIPCommandSendRRData, EIPCommandSendUnitData, EIPCommandUnregister}
            => (sessionHandle # 0 /\ Uint32(f, 5) = sessionHandle)
       /\ Uint16(f, 1) = EIPCommandListIdentity => Uint32(f, 5) = 0]_vars

C16_Witness ==
  /\ \E i \in 1..Len(sent) :
       Uint16(sent[i], 1) = EIPCommandUnregister /\ Uint32(sent[i], 5) = 16909060
  /\ sessionHandle = 0

(* ------------------------------ PLCClient ------------------------------ *)
(* WriteTag: the type switch that converts the value to its wire bytes *)
(* the Go type WriteTag asserts for a declared CIP type *)
GoType(dataType) ==
  CASE dataType = CIPDataTypeBOOL -> "bool"
    [] dataType = CIPDataTypeSINT -> "int8"
    [] dataType = CIPDataTypeINT -> "int16"
    [] dataType = CIPDataTypeDINT -> "int32"
    [] dataType = CIPDataTypeREAL -> "float32"
    [] OTHER -> "unsupported"

(* WriteTag without the type assertions: any value is encoded *)
WriteTagEncode_Unchecked(dataType, value) ==
  IF GoType(dataType) = "unsupported"
    THEN [data |-> <<>>, err |-> Err("unsupported data type")]
    ELSE [data |-> <<0>>, err |-> NilErr]

WriteTagEncode(dataType, value) ==
  CASE dataType = CIPDataTypeBOOL ->
         IF value.type # "bool" THEN [data |-> <<>>, err |-> Err("value is not a bool")]
         ELSE [data |-> IF value.v THEN <<1>> ELSE <<0>>, err |-> NilErr]
    [] dataType = CIPDataTypeSINT ->
         IF value.type # "int8" THEN [data |-> <<>>, err |-> Err("value is not an int8")]
         ELSE [data |-> <<value.v % 256>>, err |-> NilErr]
    [] dataType = CIPDataTypeINT ->
         IF value.type # "int16" THEN [data |-> <<>>, err |-> Err("value is not an int16")]
         ELSE [data |-> PutUint16(value.v % 65536), err |-> NilErr]
    [] dataType = CIPDataTypeDINT ->
         IF value.type # "int32" THEN [data |-> <<>>, err |-> Err("value is not an int32")]
         ELSE [data |-> PutUint32(value.v), err |-> NilErr]
    [] dataType = CIPDataTypeREAL ->
         IF value.type # "float32" THEN [data |-> <<>>, err |-> Err("value is not a float32")]
         ELSE [data |-> PutUint32Wide(Float32bits(value)), err |-> NilErr]
    [] OTHER -> [data |-> <<>>, err |-> Err("unsupported data type")]

(* what the PLCClient's callers pass and what the controller answers *)
TagNames == {<<67, 111, 117, 110, 116, 101, 114>>}
ReadTypes == {CIPDataTypeDINT, CIPDataTypeBOOL}
WriteArgs == {<<CIPDataTypeDINT, [type |-> "int32", v |-> 42]>>,
              <<CIPDataTypeBOOL, [type |-> "int32", v |-> 42]>>,
              <<CIPDataTypeDWORD, [type |-> "uint32", v |-> [lo |-> 42, hi |-> 0]]>>,
              <<CIPDataTypeSTRING, [type |-> "string", v |-> <<78, 85, 84>>]>>}
CIPReplies == {<<204, 0, 196, 1, 42, 0, 0, 0>>, <<138, 0, 196, 1, 42, 0, 0, 0>>,
               <<204, 0, 202, 1, 0, 0, 0, 0>>, <<204, 1, 0>>, <<205, 0>>, <<76, 0>>, <<204>>}
PLCReplies ==
  {EIPHeader(EIPCommandSendRRData, 6 + Len(c), 0, 0) \o PutUint32(0) \o PutUint16(10) \o c
     : c \in CIPReplies}
    \cup {EIPHeader(EIPCommandSendRRData, 4, 0, 0) \o <<17, 18, 19, 20>>,
          EIPHeader(EIPCommandSendRRData, 6, 0, 1) \o Zeros(6),
          EIPHeader(EIPCommandNOP, 0, 0, 0)}

(* the state after NewPLCClient: connected and registered *)
InitPLC ==
  /\ sessionHandle = 16909060
  /\ closed = FALSE
  /\ mu = 0
  /\ inbuf = <<>>
  /\ sent = <<RegisterFrame>>
  /\ lastIO = [step |-> "read_hdr", rearmed |-> TRUE]
  /\ pc = [t \in Threads |-> "idle"]
  /\ call = [t \in Threads |-> NoCall]
  /\ result = [t \in Threads |-> NoResult]
  /\ registered = TRUE
  /\ srvPending = 0
  /\ closeCalls = 0
  /\ calls = 0
  /\ cip = NoCIP
  /\ backoff = NoBackoff
  /\ monitor = NoMonitor
  /\ lr = NoLogReader

(* PLCClient.ReadTag: build the request and call SendRRData(0, 10, request) *)
ReadTag(t) ==
  /\ pc[t] = "idle"
  /\ calls < MaxCalls
  /\ \E tagName \in TagNames, dataType \in ReadTypes :
       call' = [call EXCEPT ![t] =
                  [NoCall EXCEPT !.op = "SendRRData", !.plc = "ReadTag",
                                 !.dataType = dataType,
                                 !.data = BuildCIPReadRequest(tagName, 1)]]
  /\ pc' = [pc EXCEPT ![t] = "lock"]
  /\ calls' = calls + 1
  /\ UNCHANGED <<sessionHandle, closed, mu, inbuf, sent, lastIO, result,
                 registered, srvPending, closeCalls,
                 cip, backoff, monitor, lr>>

(* PLCClient.WriteTag: encode the value (or fail), build the request and call
   SendRRData(0, 10, request) *)
WriteTag(t) ==
  /\ pc[t] = "idle"
  /\ calls < MaxCalls
  /\ \E tagName \in TagNames, a \in WriteArgs :
       LET e == WriteTagEncode(a[1], a[2]) IN
       IF e.err # NilErr
         THEN /\ call' = [call EXCEPT ![t] =
                            [NoCall EXCEPT !.plc = "WriteTag", !.dataType = a[1],
                                           !.value = a[2], !.plcOut = Fail(e.err)]]
              /\ UNCHANGED pc
         ELSE /\ call' = [call EXCEPT ![t] =
                            [NoCall EXCEPT !.op = "SendRRData", !.plc = "WriteTag",
                                           !.dataType = a[1], !.value = a[2],
                                           !.data = BuildCIPWriteRequest(tagName, a[1], e.data)]]
              /\ pc' = [pc EXCEPT ![t] = "lock"]
  /\ calls' = calls + 1
  /\ UNCHANGED <<sessionHandle, closed, mu, inbuf, sent, lastIO, result,
                 registered, srvPending, closeCalls,
                 cip, backoff, monitor, lr>>

(* PLCClient.Close: `return p.client.Close()` *)
PLCClose(t) ==
  /\ pc[t] = "idle"
  /\ calls < MaxCalls
  /\ call' = [call EXCEPT ![t] = [NoCall EXCEPT !.op = "Close", !.afterClose = closeCalls > 0]]
  /\ pc' = [pc EXCEPT ![t] = "close_check"]
  /\ calls' = calls + 1
  /\ UNCHANGED <<sessionHandle, closed, mu, inbuf, sent, lastIO, result,
                 registered, srvPending, closeCalls,
                 cip, backoff, monitor, lr>>

(* ReadTag / WriteTag after SendRRData has returned: pass its error on, or
   parse the CIP response *)
PLCReturn(t) ==
  /\ pc[t] = "plc_parse"
  /\ LET out == IF result[t].err # "nil"
                  THEN Fail([kind |-> "session", msg |-> result[t].err])
                ELSE IF call[t].plc = "ReadTag"
                  THEN ParseCIPReadResponse(result[t].data, call[t].dataType)
                ELSE Fail(ParseCIPResponse(result[t].data).err)
     IN call' = [call EXCEPT ![t].plcOut = out]
  /\ pc' = [pc EXCEPT ![t] = "idle"]
  /\ UNCHANGED <<sessionHandle, closed, mu, inbuf, sent, lastIO, result,
                 registered, srvPending, closeCalls, calls,
                 cip, backoff, monitor, lr>>

(* the controller answers the outstanding Send RR Data with one whole frame *)
PLCServerReply ==
  /\ srvPending # 0
  /\ ~closed
  /\ \E f \in PLCReplies : inbuf' = inbuf \o f
  /\ srvPending' = 0
  /\ UNCHANGED <<sessionHandle, closed, mu, sent, lastIO, pc, call, result,
                 registered, closeCalls, calls,
                 cip, backoff, monitor, lr>>

NextPLC ==
  \/ \E t \in Threads : ReadTag(t)
  \/ \E t \in Threads : WriteTag(t)
  \/ \E t \in Threads : PLCClose(t)
  \/ \E t \in Threads : Lock(t)
  \/ \E t \in Threads : Write(t)
  \/ \E t \in Threads : ReadHeader(t)
  \/ \E t \in Threads : ReadPrefix(t)
  \/ \E t \in Threads : ReadData(t)
  \/ \E t \in Threads : PLCReturn(t)
  \/ \E t \in Threads : CloseCheck(t)
  \/ \E t \in Threads : UnregLock(t)
  \/ \E t \in Threads : UnregWrite(t)
  \/ \E t \in Threads : ConnClose(t)
  \/ PLCServerReply

SpecPLC == InitPLC /\ [][NextPLC]_vars

(* C11: a ReadTag / WriteTag that returns a CIP-layer error has left the
   session handle and the connection as they were and has consumed exactly
   its reply frame, so the next call starts on a frame boundary. *)
CIPLayerErrors == {"CIPError", "error"}

C11_CIPErrorKeepsSession ==
  [][\A t \in Threads :
       /\ (call[t].plc # "none" /\ pc'[t] # pc[t])
            => (sessionHandle' = sessionHandle /\ closed' = closed)
       /\ (pc[t] = "plc_parse" /\ pc'[t] = "idle"
             /\ call'[t].plcOut.err.kind \in CIPLayerErrors)
            => /\ inbuf' = inbuf /\ sent' = sent
               /\ call[t].got = 24 + call[t].respLen]_vars

(* C13: SendRRData never reports success for a reply whose length field is
   below 6. *)
C13_ShortReplyRejected ==
  [][\A t \in Threads :
       (call[t].op = "SendRRData" /\ pc[t] \in {"read_prefix", "read_data"}
          /\ pc'[t] \in {"idle", "plc_parse"} /\ result'[t].err = "nil")
         => call[t].respLen >= 6]_vars

(* C18: ReadTag / WriteTag accept a response only if the low seven bits of
   its service byte are the service code of the request (0x4C / 0x4D). *)
C18_ServiceCodeEchoed ==
  [][\A t \in Threads :
       (pc[t] = "plc_parse" /\ pc'[t] = "idle" /\ call'[t].plcOut.err = NilErr)
         => result[t].data[1] % 128 =
              (IF call[t].plc = "ReadTag" THEN CIPServiceReadTag ELSE CIPServiceWriteTag)]_vars

(* C30: a WriteTag whose value's runtime type is not the Go type of the
   declared CIP type returns an error at once: the call is over without a
   step that locks, writes or reads, and the session handle, the connection
   and both byte streams are as before. *)
C30_MismatchBeforeIO ==
  [][\A t \in Threads :
       (/\ pc[t] = "idle" /\ calls' = calls + 1
        /\ \A u \in Threads \ {t} : pc'[u] = pc[u]
        /\ call'[t].plc = "WriteTag"
        /\ GoType(call'[t].dataType) # "unsupported"
        /\ call'[t].value.type # GoType(call'[t].dataType))
         => /\ call'[t].plcOut.err.kind = "error"
            /\ call'[t].plcOut.value = NoValue
            /\ pc'[t] = "idle"
            /\ sent' = sent /\ inbuf' = inbuf /\ mu' = mu
            /\ sessionHandle' = sessionHandle /\ closed' = closed]_vars

C30_Witness ==
  \E t \in Threads :
    /\ call[t].plc = "WriteTag" /\ pc[t] = "idle"
    /\ call[t].dataType = CIPDataTypeBOOL /\ call[t].value.type = "int32"
    /\ call[t].plcOut = Fail(Err("value is not a bool"))
    /\ sent = <<RegisterFrame>> /\ sessionHandle = 16909060 /\ ~closed

(* the Go type of the value each CIP type of the scalar table carries *)
TableGoType(dataType) ==
  CASE dataType = CIPDataTypeDWORD -> "uint32"
    [] dataType = CIPDataTypeSTRING -> "string"
    [] OTHER -> GoType(dataType)

(* C31: a WriteTag of any type of the scalar table (BOOL, SINT, INT, DINT,
   REAL, DWORD, STRING) with a value of the matching Go type has encoded the
   value and gone on to send its Write Tag request with SendRRData; it has
   not failed before I/O. *)
C31_EveryTableTypeWritable ==
  \A t \in Threads :
    (/\ call[t].plc = "WriteTag"
     /\ TableGoType(call[t].dataType) # "unsupported"
     /\ call[t].value.type = TableGoType(call[t].dataType))
      => (call[t].op = "SendRRData" /\ call[t].plcOut.err.kind # "error")

(* C36: every blocking TCP step of a session operation is immediately
   preceded by re-arming its deadline: the write, the reply-header read and
   the reply-payload reads. *)
C36_DeadlineRearmed == lastIO.step # "none" => lastIO.rearmed

(* --------------------- the CIP-layer functions applied ------------------ *)
sessionVars == <<sessionHandle, closed, mu, inbuf, sent, lastIO, pc, call, result,
                 registered, srvPending, closeCalls, calls>>

(* inputs *)
ServiceBytes == {204, 138, 76, 0}
ResponseTails == {<<>>, <<2>>, <<68, 65, 84, 65>>}
CIPResponseInputs ==
  {<<>>} \cup {<<b>> : b \in ServiceBytes}
    \cup {<<b, st>> \o tl : b \in ServiceBytes, st \in 0..255, tl \in ResponseTails}

WireTypes == {CIPDataTypeBOOL, CIPDataTypeSINT, CIPDataTypeINT, CIPDataTypeDINT,
              CIPDataTypeREAL, CIPDataTypeDWORD, CIPDataTypeSTRING, 160}
ValueBytes == {<<>>, <<1>>, <<255, 255>>, <<42, 0, 0, 0>>, <<0, 0, 0, 128>>,
               <<2, 0, 72, 105>>, <<5, 0, 72, 105>>, <<255, 255, 72>>}
ReadResponseInputs ==
  {<<b, st>> : b \in {204, 76}, st \in {0, 1}}
    \cup {<<b, st, dt>> : b \in {204, 76}, st \in {0, 1}, dt \in WireTypes}
    \cup {<<b, st, dt, 1>> \o v : b \in {204, 76}, st \in {0, 1}, dt \in WireTypes,
                                  v \in ValueBytes}

FrameDataLens == (0..MaxData) \cup {65529, 65530}

(* the frame a call of operation o writes (Close writes the Unregister frame) *)
ClientFrame(o, h, data) == IF o = "Close" THEN UnregisterFrame(h) ELSE Request(o, h, data)

DoParseCIPResponse ==
  /\ cip = NoCIP
  /\ \E r \in CIPResponseInputs :
       cip' = [fn |-> "ParseCIPResponse", response |-> r, out |-> ParseCIPResponse(r)]
  /\ UNCHANGED <<sessionVars, backoff, monitor, lr>>

DoParseCIPReadResponse ==
  /\ cip = NoCIP
  /\ \E r \in ReadResponseInputs, T \in WireTypes :
       cip' = [fn |-> "ParseCIPReadResponse", response |-> r, dataType |-> T,
               out |-> ParseCIPReadResponse(r, T)]
  /\ UNCHANGED <<sessionVars, backoff, monitor, lr>>

DoClientFrame ==
  /\ cip = NoCIP
  /\ \E o \in Ops, n \in FrameDataLens :
       /\ o \notin SendOps => n = 0
       /\ LET frame == ClientFrame(o, 16909060, Zeros(n)) IN
          cip' = [fn |-> "ClientFrame", op |-> o, dataLen |-> n,
                  lengthField |-> Uint16(frame, 3), payloadLen |-> Len(frame) - 24]
  /\ UNCHANGED <<sessionVars, backoff, monitor, lr>>

NextCIP == DoParseCIPResponse \/ DoParseCIPReadResponse \/ DoClientFrame

SpecCIP == Init /\ [][NextCIP]_vars

(* C15: every frame the client builds has exactly as many payload bytes after
   its 24-byte header as its u16 length field states, for every data length. *)
C15_LengthFieldMatchesPayload ==
  cip.fn = "ClientFrame" => cip.payloadLen = cip.lengthField

(* C17: ParseCIPReadResponse returns a value only if the response's data-type
   code equals the declared type; when the codes of a successful response
   differ it returns the type-mismatch error with both codes and no value. *)
C17_TypedReadChecksType ==
  cip.fn = "ParseCIPReadResponse" =>
    LET r == cip.response  T == cip.dataType  out == cip.out IN
    /\ out.err = NilErr => (Len(r) >= 3 /\ r[3] = T)
    /\ (Len(r) >= 4 /\ r[1] >= 128 /\ r[2] = 0 /\ r[3] # T)
         => (out.err = TypeMismatch(T, r[3]) /\ out.value = NoValue)

C17_Witness ==
  /\ cip.fn = "ParseCIPReadResponse"
  /\ Len(cip.response) >= 8 /\ cip.response[1] >= 128 /\ cip.response[2] = 0
  /\ cip.response[3] = CIPDataTypeREAL /\ cip.dataType = CIPDataTypeDINT
  /\ cip.out.value = NoValue

(* C19: ParseCIPResponse rejects every buffer shorter than 2 bytes and every
   buffer whose first byte lacks bit 0x80 (`not a response`), whatever follows;
   with the bit set and status 0 it returns the bytes from offset 2 on. *)
C19_ReplyBitRule ==
  cip.fn = "ParseCIPResponse" =>
    LET r == cip.response  out == cip.out IN
    /\ Len(r) < 2 => out.err.kind = "error"
    /\ (Len(r) >= 2 /\ r[1] < 128) => out = [data |-> <<>>, err |-> Err("not a response")]
    /\ (Len(r) >= 2 /\ r[1] >= 128 /\ r[2] = 0)
         => out = [data |-> SubSeq(r, 3, Len(r)), err |-> NilErr]

C19_Witness ==
  /\ cip.fn = "ParseCIPResponse"
  /\ Len(cip.response) > 2 /\ cip.response[1] < 128 /\ cip.response[2] = 0
  /\ cip.out.err.kind = "error"

(* C20: on a reply-bit response with general status s, ParseCIPResponse
   returns an error iff s # 0, and the error is a CIPError with Code = s;
   statuses above the table get the generic description. *)
C20_StatusMapping ==
  (cip.fn = "ParseCIPResponse" /\ Len(cip.response) >= 2 /\ cip.response[1] >= 128) =>
    LET st == cip.response[2]  out == cip.out IN
    /\ (out.err # NilErr) <=> (st # 0)
    /\ st # 0 => (out.err.kind = "CIPError" /\ out.err.Code = st)
    /\ st \in 42..254 => out.err.ExtendedMsg = "Unknown error"

C20_Witness ==
  /\ cip.fn = "ParseCIPResponse"
  /\ Len(cip.response) >= 2 /\ cip.response[1] >= 128 /\ cip.response[2] = 200
  /\ cip.out.err.kind = "CIPError"

(* ------------- status table, scalar codecs and request builders ---------- *)
MinInt32 == (-2147483647) - 1

ScalarTypes == {CIPDataTypeBOOL, CIPDataTypeSINT, CIPDataTypeINT, CIPDataTypeDINT}

ScalarValues(T) ==
  CASE T = CIPDataTypeBOOL -> {[type |-> "bool", v |-> b] : b \in BOOLEAN}
    [] T = CIPDataTypeSINT -> {[type |-> "int8", v |-> n] : n \in -128..127}
    [] T = CIPDataTypeINT ->
         {[type |-> "int16", v |-> n] : n \in {-32768, -32767, -256, -1, 0, 1, 255, 256, 32767}}
    [] T = CIPDataTypeDINT ->
         {[type |-> "int32", v |-> n] :
            n \in {MinInt32, -2147483647, -65536, -1, 0, 1, 42, 65536, 2147483647}}

(* the helper pair of a scalar type, where the package has one *)
UtilRoundTrip(T, value) ==
  CASE T = CIPDataTypeBOOL -> DecodeBool(EncodeBool(value.v))
    [] T = CIPDataTypeINT -> DecodeInt16(EncodeInt16(value.v))
    [] T = CIPDataTypeDINT -> DecodeInt32(EncodeInt32(value.v))
    [] OTHER -> Value(value)

(* value bytes of REAL responses: 0.0, 42.0, 1.0, -1.0, the smallest
   subnormal, and the pattern 0x4E9D3A75 *)
RealBytes == {<<0, 0, 0, 0>>, <<0, 0, 40, 66>>, <<0, 0, 128, 63>>, <<0, 0, 128, 191>>,
              <<1, 0, 0, 0>>, <<117, 58, 157, 78>>}

Counter == <<67, 111, 117, 110, 116, 101, 114>>
NameLens == {1, 2, 254, 255, 256, 257, 509, 510}
NameOfLen(n) == [i \in 1..n |-> 65 + (i % 26)]
Names == {<<>>, Counter} \cup {NameOfLen(n) : n \in NameLens}
ElementCounts == {1, 258, 65535}
WriteData == {<<>>, <<1>>, <<42, 0, 0, 0>>}

DoCIPStatusToError ==
  /\ cip = NoCIP
  /\ \E status \in 0..255 :
       cip' = [fn |-> "CIPStatusToError", status |-> status, out |-> CIPStatusToError(status)]
  /\ UNCHANGED <<sessionVars, backoff, monitor, lr>>

(* WriteTag's value bytes put into a successful read response of the type *)
DoRoundTrip ==
  /\ cip = NoCIP
  /\ \E T \in ScalarTypes : \E value \in ScalarValues(T) :
       LET e == WriteTagEncode(T, value) IN
       cip' = [fn |-> "RoundTrip", dataType |-> T, value |-> value, encoded |-> e,
               read |-> ParseCIPReadResponse(<<204, 0, T, 0>> \o e.data, T),
               util |-> UtilRoundTrip(T, value)]
  /\ UNCHANGED <<sessionVars, backoff, monitor, lr>>

DoReadReal ==
  /\ cip = NoCIP
  /\ \E b \in RealBytes :
       LET written == Float32frombits(Uint32Wide(b, 1)) IN
       cip' = [fn |-> "ReadReal", bytes |-> b,
               read |-> ParseCIPReadResponse(<<204, 0, CIPDataTypeREAL, 0>> \o b,
                                             CIPDataTypeREAL),
               util |-> DecodeFloat32(b),
               encoded |-> WriteTagEncode(CIPDataTypeREAL, written).data,
               utilEncoded |-> EncodeFloat32(written)]
  /\ UNCHANGED <<sessionVars, backoff, monitor, lr>>

DoBuildCIPPath ==
  /\ cip = NoCIP
  /\ \E tagName \in Names :
       cip' = [fn |-> "BuildCIPPath", tagName |-> tagName, path |-> BuildCIPPath(tagName)]
  /\ UNCHANGED <<sessionVars, backoff, monitor, lr>>

DoBuildCIPReadRequest ==
  /\ cip = NoCIP
  /\ \E tagName \in Names, elements \in ElementCounts :
       cip' = [fn |-> "BuildCIPReadRequest", tagName |-> tagName, elements |-> elements,
               request |-> BuildCIPReadRequest(tagName, elements)]
  /\ UNCHANGED <<sessionVars, backoff, monitor, lr>>

DoBuildCIPWriteRequest ==
  /\ cip = NoCIP
  /\ \E tagName \in Names, dataType \in {CIPDataTypeDINT, CIPDataTypeBOOL}, data \in WriteData :
       cip' = [fn |-> "BuildCIPWriteRequest", tagName |-> tagName, dataType |-> dataType,
               data |-> data, request |-> BuildCIPWriteRequest(tagName, dataType, data)]
  /\ UNCHANGED <<sessionVars, backoff, monitor, lr>>

NextCodec ==
  \/ DoCIPStatusToError
  \/ DoRoundTrip
  \/ DoReadReal
  \/ DoBuildCIPPath
  \/ DoBuildCIPReadRequest
  \/ DoBuildCIPWriteRequest

SpecCodec == Init /\ [][NextCodec]_vars

(* C21: every general status in 0x01..0x29, and 0xFF, has its own description
   in the table and never the generic `Unknown error`. *)
C21_StatusTableExhaustive ==
  (cip.fn = "CIPStatusToError" /\ cip.status \in (1..41) \cup {255}) =>
    /\ cip.out.kind = "CIPError"
    /\ cip.out.ExtendedMsg # "Unknown error"
    /\ \A other \in ((1..41) \cup {255}) \ {cip.status} :
         CIPStatusMsg(other) # cip.out.ExtendedMsg

(* C22: for every BOOL, SINT, INT and DINT value v, the bytes WriteTag's
   encoding produces, placed in a successful read response of the same type,
   are decoded by ParseCIPReadResponse back to v; the Encode/Decode helper
   pairs agree. *)
C22_IntegerRoundTrip ==
  cip.fn = "RoundTrip" =>
    /\ cip.encoded.err = NilErr
    /\ cip.read = Value(cip.value)
    /\ cip.util = Value(cip.value)

C22_Witness ==
  /\ cip.fn = "RoundTrip"
  /\ cip.dataType = CIPDataTypeINT /\ cip.value.v = -32768
  /\ cip.encoded.data = <<0, 128>>
  /\ cip.read.value.v = -32768

(* C23: a successful REAL read response yields the single whose bit pattern
   is the little-endian u32 of its four value bytes, as DecodeFloat32 does,
   and encoding that value gives the four bytes back. *)
C23_RealIsBitPattern ==
  cip.fn = "ReadReal" =>
    /\ cip.read = Value(Float32frombits(Uint32Wide(cip.bytes, 1)))
    /\ cip.read = cip.util
    /\ cip.encoded = cip.bytes /\ cip.utilEncoded = cip.bytes

(* C24: ParseCIPReadResponse returns a value or an error for every input and
   never indexes outside the buffer; a STRING response whose u16 length
   prefix exceeds the bytes present after it yields the truncation error. *)
C24_ReadParseTotal ==
  cip.fn = "ParseCIPReadResponse" =>
    LET r == cip.response  out == cip.out IN
    /\ out.err.kind \in {"nil", "error", "CIPError"}
    /\ (Len(r) >= 6 /\ r[1] >= 128 /\ r[2] = 0 /\ r[3] = CIPDataTypeSTRING
          /\ cip.dataType = CIPDataTypeSTRING /\ Uint16(r, 5) > Len(r) - 6)
         => out = Fail(Err("string data truncated"))

(* C25: for every non-empty tag name s of any length the path has even
   length, starts 0x91, len(s), then the bytes of s, and ends with exactly one
   0x00 pad byte when len(s) is odd; the empty name yields the empty path. *)
C25_PathLayout ==
  cip.fn = "BuildCIPPath" =>
    LET s == cip.tagName  path == cip.path  n == Len(cip.tagName) IN
    IF s = <<>> THEN path = <<>>
    ELSE /\ Len(path) % 2 = 0
         /\ Len(path) = (IF n % 2 = 1 THEN n + 3 ELSE n + 2)
         /\ path[1] = CIPPathTypeSymbolic
         /\ path[2] = n
         /\ SubSeq(path, 3, 2 + n) = s
         /\ n % 2 = 1 => path[n + 3] = 0

(* the padded path length of a tag name, as the tests compute it *)
PaddedPathLen(tagName) == 2 + Len(tagName) + (IF Len(tagName) % 2 # 0 THEN 1 ELSE 0)

EmbeddedPathLen ==
  IF cip.fn = "BuildCIPReadRequest" THEN Len(cip.request) - 4
  ELSE Len(cip.request) - 4 - Len(cip.data)

(* C26: in every read and write request the embedded path has even byte
   length and the path-size byte is that length divided by two; a read
   request ends with the element count in little-endian. *)
C26_PathSizeInWords ==
  cip.fn \in {"BuildCIPReadRequest", "BuildCIPWriteRequest"} =>
    /\ EmbeddedPathLen % 2 = 0
    /\ cip.request[2] = EmbeddedPathLen \div 2
    /\ cip.fn = "BuildCIPReadRequest" =>
         Uint16(cip.request, Len(cip.request) - 1) = cip.elements

(* the layout of a write request, with the given bytes for `Counter` = DINT(42) *)
WriteRequestLayout(example) ==
  cip.fn = "BuildCIPWriteRequest" =>
    LET r == cip.request  path == BuildCIPPath(cip.tagName)  p == Len(path) IN
    /\ Len(r) = 4 + p + Len(cip.data)
    /\ r[1] = CIPServiceWriteTag
    /\ SubSeq(r, 3, 2 + p) = path
    /\ r[3 + p] = cip.dataType
    /\ r[4 + p] = 1
    /\ SubSeq(r, 5 + p, Len(r)) = cip.data
    /\ (cip.tagName = Counter /\ cip.dataType = CIPDataTypeDINT /\ cip.data = <<42, 0, 0, 0>>)
         => r = example

(* C27 as stated: service 0x4D, path-size byte, path, type code, count 1, data,
   of total length 4 + len(path) + len(data), and `Counter` = DINT(42) gives
   4D 04 91 07 43 6F 75 6E 74 65 72 00 C4 01 2A 00 00 00. *)
C27_WriteRequestBytes_Stated ==
  WriteRequestLayout(<<77, 4, 145, 7, 67, 111, 117, 110, 116, 101, 114, 0,
                       196, 1, 42, 0, 0, 0>>)

(* C27 amended: the same layout, and `Counter` = DINT(42) gives
   4D 05 91 07 43 6F 75 6E 74 65 72 00 C4 01 2A 00 00 00 (the 10-byte path
   is 5 words). *)
C27_WriteRequestBytes ==
  WriteRequestLayout(<<77, 5, 145, 7, 67, 111, 117, 110, 116, 101, 114, 0,
                       196, 1, 42, 0, 0, 0>>)

C27_Witness ==
  /\ cip.fn = "BuildCIPWriteRequest"
  /\ cip.tagName = Counter /\ cip.dataType = CIPDataTypeDINT /\ cip.data = <<42, 0, 0, 0>>
  /\ Len(cip.request) = 18 /\ cip.request[2] = 5

(* the request's byte at 0-based index i *)
At(request, i) == request[i + 1]

(* type code, element count 1 and value bytes at 0-based offsets d, d+1, d+2 *)
TypeCountValueAt(d) ==
  cip.fn = "BuildCIPWriteRequest" =>
    LET r == cip.request IN
    /\ Len(r) >= d + 2 + Len(cip.data)
    /\ At(r, d) = cip.dataType
    /\ At(r, d + 1) = 1
    /\ SubSeq(r, d + 3, d + 2 + Len(cip.data)) = cip.data

(* C28 as stated: with L the padded path length, the type code is at index L,
   the element count 1 at L+1 and the value bytes start at L+2. *)
C28_WriteOffsets_Stated ==
  cip.fn = "BuildCIPWriteRequest" => TypeCountValueAt(PaddedPathLen(cip.tagName))

(* C28 amended: for a non-empty name the type code is at index 2+L, the
   element count 1 at 3+L and the value bytes start at 4+L (the service and
   path-size bytes precede the path); for the empty name the path is empty
   and they are at 2, 3 and 4. *)
C28_WriteOffsets ==
  cip.fn = "BuildCIPWriteRequest" =>
    TypeCountValueAt(IF cip.tagName = <<>> THEN 2 ELSE 2 + PaddedPathLen(cip.tagName))

C28_Witness ==
  /\ cip.fn = "BuildCIPWriteRequest"
  /\ Len(cip.tagName) = 255 /\ cip.data = <<1>> /\ cip.dataType = CIPDataTypeBOOL
  /\ At(cip.request, 260) = CIPDataTypeBOOL /\ Len(cip.request) = 263

(* C29: the path-size byte of a read request is (len(name) + 2) / 2, plus 1
   when len(name) is odd, for every tag name. *)
C29_ReadPathSize ==
  cip.fn = "BuildCIPReadRequest" =>
    cip.request[2] = (Len(cip.tagName) + 2) \div 2
                       + (IF Len(cip.tagName) % 2 # 0 THEN 1 ELSE 0)

(* --------------------------- ExponentialBackoff ------------------------- *)
MaxRetries == 3

(* time.Duration is a signed integer that wraps on overflow; the model keeps
   the wrap at a reduced width *)
DurationBits == 6
WrapDuration(x) == ((x + 2^(DurationBits - 1)) % 2^DurationBits) - 2^(DurationBits - 1)

InitialDelays == {1, 4, 20}
MaxDelays == {2, 31}

(* what the operation returns: nil; a net.Error that timed out, that reports a
   connection reset, or neither (e.g. a DNS error); a Client error that wraps
   a timeout or a reset with fmt.Errorf("...: %w", err); a CIPError; the
   type-mismatch error of a read; the precondition error of a write *)
OpResults == {"nil", "net_timeout", "net_reset", "net_other", "wrapped_timeout",
              "wrapped_reset", "cip_status", "type_mismatch", "precondition"}

(* err.(net.Error): the dynamic type has Timeout(); *fmt.wrapError has not *)
IsNetError(e) == e \in {"net_timeout", "net_reset", "net_other"}

Timeout(e) == e = "net_timeout"

(* the message contains "connection", "reset" or "broken pipe" *)
isConnectionError(e) == e \in {"net_reset", "wrapped_reset"}

(* every failure counts as retryable *)
Retryable_Always(e) == TRUE

Retryable(e) == IsNetError(e) /\ (Timeout(e) \/ isConnectionError(e))

(* the loop condition with one attempt too many *)
AttemptsRemain_OneMore(b) == b.i <= b.maxRetries

AttemptsRemain(b) == b.i < b.maxRetries

InitBackoff ==
  /\ sessionHandle = 0 /\ closed = FALSE /\ mu = 0 /\ inbuf = <<>> /\ sent = <<>>
  /\ lastIO = NoIO
  /\ pc = [t \in Threads |-> "idle"]
  /\ call = [t \in Threads |-> NoCall]
  /\ result = [t \in Threads |-> NoResult]
  /\ registered = FALSE /\ srvPending = 0 /\ closeCalls = 0 /\ calls = 0
  /\ cip = NoCIP /\ monitor = NoMonitor /\ lr = NoLogReader
  /\ \E initialDelay \in InitialDelays, maxDelay \in MaxDelays, maxRetries \in 0..MaxRetries :
       backoff = [pc |-> "loop", i |-> 0, delay |-> initialDelay, err |-> "nil",
                  initialDelay |-> initialDelay, maxDelay |-> maxDelay,
                  maxRetries |-> maxRetries, results |-> <<>>, slept |-> <<>>,
                  ret |-> "none"]

(* one iteration up to the sleep: `err = operation()` and the two returns *)
BackoffAttempt ==
  /\ backoff.pc = "loop"
  /\ AttemptsRemain(backoff)
  /\ \E e \in OpResults :
       backoff' = [backoff EXCEPT
                     !.results = Append(@, e),
                     !.err = e,
                     !.pc = IF e # "nil" /\ Retryable(e) THEN "sleep" ELSE "done",
                     !.ret = IF e = "nil" THEN "nil"
                             ELSE IF Retryable(e) THEN @ ELSE e]
  /\ UNCHANGED <<sessionVars, cip, monitor, lr>>

(* time.Sleep(delay); delay *= 2; cap; continue *)
BackoffSleep ==
  /\ backoff.pc = "sleep"
  /\ LET doubled == WrapDuration(backoff.delay * 2) IN
     backoff' = [backoff EXCEPT
                   !.slept = Append(@, backoff.delay),
                   !.delay = IF doubled > backoff.maxDelay THEN backoff.maxDelay ELSE doubled,
                   !.i = @ + 1,
                   !.pc = "loop"]
  /\ UNCHANGED <<sessionVars, cip, monitor, lr>>

(* the loop is left: `operation failed after %d retries: %w` *)
BackoffGiveUp ==
  /\ backoff.pc = "loop"
  /\ ~AttemptsRemain(backoff)
  /\ backoff' = [backoff EXCEPT !.pc = "done", !.ret = "failed_after_retries"]
  /\ UNCHANGED <<sessionVars, cip, monitor, lr>>

NextBackoff == BackoffAttempt \/ BackoffSleep \/ BackoffGiveUp

SpecBackoff == InitBackoff /\ [][NextBackoff]_vars

(* the goroutine running ExponentialBackoff keeps running *)
SpecBackoffFair == SpecBackoff /\ WF_vars(NextBackoff)

Invoked == Len(backoff.results)
LastResult == backoff.results[Invoked]

(* the errors the specification calls transport timeouts or connection resets *)
TransportClass == {"net_timeout", "net_reset", "wrapped_timeout", "wrapped_reset"}
NonTransport == {"cip_status", "type_mismatch", "precondition"}

(* C32: whenever the operation returns a transport timeout or a
   connection-reset-class error, also one wrapped by a Client operation, it is
   invoked again while attempts remain: the call ends on such an error only
   after maxRetries invocations. *)
C32_TransportErrorsRetried ==
  (backoff.pc = "done" /\ Invoked > 0 /\ LastResult \in TransportClass)
    => Invoked = backoff.maxRetries

(* C33: when the operation returns a non-transport error, it is not invoked
   again, that same error is returned, and no delay is slept after it. *)
C33_NonTransportNotRetried ==
  \A k \in 1..Invoked :
    backoff.results[k] \in NonTransport
      => /\ k = Invoked
         /\ backoff.pc = "done" /\ backoff.ret = backoff.results[k]
         /\ Len(backoff.slept) = k - 1

C33_Witness ==
  /\ backoff.pc = "done"
  /\ backoff.results = <<"net_timeout", "cip_status">>
  /\ backoff.ret = "cip_status" /\ Len(backoff.slept) = 1

(* C34: the call terminates, having invoked the operation at most maxRetries
   times; it returns nil as soon as one invocation succeeds, and a non-nil
   error when all maxRetries invocations failed with retryable errors. *)
C34_Bounded ==
  /\ Invoked <= backoff.maxRetries
  /\ \A k \in 1..Invoked :
       backoff.results[k] = "nil" => (k = Invoked /\ backoff.pc = "done" /\ backoff.ret = "nil")
  /\ (backoff.pc = "done" /\ Invoked = backoff.maxRetries
        /\ \A k \in 1..Invoked : Retryable(backoff.results[k]))
       => backoff.ret \notin {"nil", "none"}

C34_TerminatesBounded == []C34_Bounded /\ <>(backoff.pc = "done")

C34_Witness ==
  /\ backoff.pc = "done" /\ backoff.maxRetries = 3
  /\ backoff.results = <<"net_timeout", "net_reset", "net_timeout">>
  /\ backoff.ret = "failed_after_retries"

(* initialDelay doubled i times and capped at maxDelay *)
RECURSIVE DoubledCapped(_, _, _)
DoubledCapped(initialDelay, maxDelay, i) ==
  IF i = 0 THEN (IF initialDelay > maxDelay THEN maxDelay ELSE initialDelay)
  ELSE LET d == 2 * DoubledCapped(initialDelay, maxDelay, i - 1)
       IN IF d > maxDelay THEN maxDelay ELSE d

(* C35: the delay slept after the i-th failed retryable attempt is
   initialDelay doubled i times and capped at maxDelay, so never above
   maxDelay; a sleep occurs only between two attempts. *)
C35_DelaysDoubledAndCapped ==
  /\ \A k \in 1..Len(backoff.slept) :
       /\ backoff.slept[k] = DoubledCapped(backoff.initialDelay, backoff.maxDelay, k - 1)
       /\ backoff.slept[k] <= backoff.maxDelay
  /\ backoff.pc = "done" => Len(backoff.slept) < Invoked \/ Invoked = 0

(* ------------------- TagMonitor of the tag-discovery example ------------ *)
MaxPolls == 3

(* the declared types the monitored tag is given with AddTag, and the numbers
   the controller holds *)
MonitorTypes == {"int16", "int32"}
MonitorNumbers == {1, 2}

Absent == [type |-> "absent"]
ReadError == [type |-> "error"]

(* fmt.Sprintf("%v", value) of an integer value: its digits, whatever its type *)
Sprintf(value) == value.v

(* equality of the values themselves, type included *)
valueEquals_Typed(a, b) == a = b

(* valueEquals; neither argument is nil: a stored value and a read value *)
valueEquals(a, b) == Sprintf(a) = Sprintf(b)

InitMonitor ==
  /\ sessionHandle = 0 /\ closed = FALSE /\ mu = 0 /\ inbuf = <<>> /\ sent = <<>>
  /\ lastIO = NoIO
  /\ pc = [t \in Threads |-> "idle"]
  /\ call = [t \in Threads |-> NoCall]
  /\ result = [t \in Threads |-> NoResult]
  /\ registered = FALSE /\ srvPending = 0 /\ closeCalls = 0 /\ calls = 0
  /\ cip = NoCIP /\ backoff = NoBackoff /\ lr = NoLogReader
  /\ \E T \in MonitorTypes :
       monitor = [pc |-> "select",       \* monitorLoop, started by Start
                  mu |-> "free",         \* m.mu: free or held by the monitor goroutine
                  tagType |-> T,         \* m.tags["Counter"]
                  stored |-> Absent,     \* m.values["Counter"], if any
                  read |-> Absent,       \* the value the current poll has read
                  stopClosed |-> FALSE,  \* close(m.stopChan) has happened
                  stopReturned |-> FALSE,
                  polls |-> <<>>,        \* history: one record per finished poll
                  callbacks |-> <<>>]    \* history: one record per callback invocation

(* AddTag on the monitored tag: m.tags[tagName] = dataType under the lock *)
MonitorAddTag ==
  /\ monitor.pc # "none" /\ monitor.mu = "free"
  /\ \E T \in MonitorTypes : T # monitor.tagType /\ monitor' = [monitor EXCEPT !.tagType = T]
  /\ UNCHANGED <<sessionVars, cip, backoff, lr>>

(* the select of monitorLoop takes the ticker case: pollTags, up to the read *)
MonitorTick ==
  /\ monitor.pc = "select"
  /\ Len(monitor.polls) < MaxPolls
  /\ monitor.mu = "free"                 \* RLock, copy of m.tags, RUnlock
  /\ monitor' = [monitor EXCEPT !.pc = "read"]
  /\ UNCHANGED <<sessionVars, cip, backoff, lr>>

(* the select of monitorLoop takes the stopChan case: return, wg.Done *)
MonitorExit ==
  /\ monitor.pc = "select"
  /\ monitor.stopClosed
  /\ monitor' = [monitor EXCEPT !.pc = "exited"]
  /\ UNCHANGED <<sessionVars, cip, backoff, lr>>

(* m.plc.ReadTag: an error (log and continue) or a value of the tag's type *)
MonitorRead ==
  /\ monitor.pc = "read"
  /\ \/ monitor' = [monitor EXCEPT
                      !.pc = "select",
                      !.polls = Append(@, [read |-> ReadError, before |-> monitor.stored,
                                           invoked |-> FALSE])]
     \/ \E n \in MonitorNumbers :
          monitor' = [monitor EXCEPT !.pc = "lock",
                                     !.read = [type |-> monitor.tagType, v |-> n]]
  /\ UNCHANGED <<sessionVars, cip, backoff, lr>>

(* m.mu.Lock() *)
MonitorLock ==
  /\ monitor.pc = "lock"
  /\ monitor.mu = "free"
  /\ monitor' = [monitor EXCEPT !.pc = "compare", !.mu = "monitor"]
  /\ UNCHANGED <<sessionVars, cip, backoff, lr>>

(* the comparison with the stored value, the store, and m.mu.Unlock() *)
MonitorCompare ==
  /\ monitor.pc = "compare"
  /\ LET exists == monitor.stored # Absent
         valueChanged == ~exists \/ ~valueEquals(monitor.stored, monitor.read)
     IN monitor' = [monitor EXCEPT
                      !.stored = IF valueChanged THEN monitor.read ELSE @,
                      !.mu = "free",
                      !.pc = IF valueChanged THEN "callback" ELSE "select",
                      !.polls = Append(@, [read |-> monitor.read, before |-> monitor.stored,
                                           invoked |-> valueChanged])]
  /\ UNCHANGED <<sessionVars, cip, backoff, lr>>

(* the copied OnChange callbacks are called with (tagName, value) *)
MonitorCallback ==
  /\ monitor.pc = "callback"
  /\ monitor' = [monitor EXCEPT
                   !.pc = "select",
                   !.callbacks = Append(@, [value |-> monitor.read, stored |-> monitor.stored,
                                            locked |-> monitor.mu # "free",
                                            afterStop |-> monitor.stopReturned])]
  /\ UNCHANGED <<sessionVars, cip, backoff, lr>>

(* Stop: close(m.stopChan) *)
MonitorStop ==
  /\ monitor.pc # "none" /\ ~monitor.stopClosed
  /\ monitor' = [monitor EXCEPT !.stopClosed = TRUE]
  /\ UNCHANGED <<sessionVars, cip, backoff, lr>>

(* Stop: m.wg.Wait() returns once monitorLoop has returned *)
MonitorStopReturn ==
  /\ monitor.stopClosed /\ ~monitor.stopReturned
  /\ monitor.pc = "exited"
  /\ monitor' = [monitor EXCEPT !.stopReturned = TRUE]
  /\ UNCHANGED <<sessionVars, cip, backoff, lr>>

NextMonitor ==
  \/ MonitorAddTag
  \/ MonitorTick
  \/ MonitorExit
  \/ MonitorRead
  \/ MonitorLock
  \/ MonitorCompare
  \/ MonitorCallback
  \/ MonitorStop
  \/ MonitorStopReturn

SpecMonitor == InitMonitor /\ [][NextMonitor]_vars

(* C39: a callback follows a poll iff the read succeeded and no value was
   stored or the stringified new value differs from the stored one; the stored
   value is then the value passed; callbacks run without the monitor's lock;
   after Stop has returned there is no further poll or callback. *)
C39_CallbackIffChanged ==
  /\ \A k \in 1..Len(monitor.polls) :
       LET p == monitor.polls[k] IN
       p.invoked <=> (p.read # ReadError
                        /\ (p.before = Absent \/ Sprintf(p.read) # Sprintf(p.before)))
  /\ \A k \in 1..Len(monitor.callbacks) :
       LET c == monitor.callbacks[k] IN
       c.stored = c.value /\ ~c.locked /\ ~c.afterStop
  /\ Len(monitor.callbacks) <= Cardinality({k \in 1..Len(monitor.polls) : monitor.polls[k].invoked})
  /\ monitor.pc = "select"
       => Len(monitor.callbacks) = Cardinality({k \in 1..Len(monitor.polls) : monitor.polls[k].invoked})
  /\ monitor.stopReturned => monitor.pc = "exited"

C39_Witness ==
  /\ monitor.stopReturned
  /\ Len(monitor.polls) = 3 /\ Len(monitor.callbacks) = 1
  /\ monitor.polls[1].invoked /\ ~monitor.polls[2].invoked /\ ~monitor.polls[3].invoked
  /\ monitor.polls[2].read # ReadError /\ monitor.polls[2].read.type # monitor.polls[2].before.type
  /\ monitor.polls[3].read = ReadError

(* ------------------------------ fanuc LogReader ------------------------- *)
MaxLines == 2          \* log lines the server sends
MaxConns == 2          \* connections the reader can establish (Connect, then reconnects)

Conns == 1..MaxConns
NL == 10                                  \* '\n'
CharO == 79
CharK == 75
Digit0 == 48
OKLine == <<CharO, CharK, NL>>            \* "OK\n"
LogLine(k) == <<Digit0 + k, NL>>          \* a parseable log line: one digit and "\n"

(* index of the first '\n' in buf, 0 if there is none *)
IndexOfNL(buf) ==
  IF \E i \in 1..Len(buf) : buf[i] = NL
    THEN CHOOSE i \in 1..Len(buf) : buf[i] = NL /\ \A j \in 1..(i - 1) : buf[j] # NL
    ELSE 0

(* strings.TrimSpace(line) of a line ending in '\n' *)
TrimSpace(line) == SelectSeq(line, LAMBDA b : b # NL)

(* strings.HasPrefix(response, "OK") *)
HasPrefixOK(response) == Len(response) >= 2 /\ response[1] = CharO /\ response[2] = CharK

IsPrefix(a, b) == Len(a) <= Len(b) /\ SubSeq(b, 1, Len(a)) = a

(* the loop never sees the cancellation *)
CtxDone_Ignored(l) == FALSE

(* `case <-ctx.Done()` is ready *)
CtxDone(l) == l.ctxDone

(* the state after StartRemoteLogMonitor has connected (Connect armed the read
   deadline of connection 1) and written its START_MONITOR command *)
InitLog ==
  /\ sessionHandle = 0 /\ closed = FALSE /\ mu = 0 /\ inbuf = <<>> /\ sent = <<>>
  /\ lastIO = NoIO
  /\ pc = [t \in Threads |-> "idle"]
  /\ call = [t \in Threads |-> NoCall]
  /\ result = [t \in Threads |-> NoResult]
  /\ registered = FALSE /\ srvPending = 0 /\ closeCalls = 0 /\ calls = 0
  /\ cip = NoCIP /\ backoff = NoBackoff /\ monitor = NoMonitor
  /\ lr = [pc |-> "mon_read",
           conn |-> 1,                   \* lr.conn
           connected |-> TRUE,           \* lr.connected
           readerConn |-> 0,             \* the connection the bufio.Reader in use wraps
           rbuf |-> <<>>,                \* bytes that reader has buffered
           line |-> <<>>,                \* the line being delivered
           wire |-> [c \in Conns |-> <<>>],       \* sent by the server, not yet read
           open |-> [c \in Conns |-> c = 1],      \* established and not closed by the reader
           expired |-> [c \in Conns |-> FALSE],   \* the read deadline armed at connect has passed
           eof |-> [c \in Conns |-> FALSE],       \* the server has closed its side
           okSent |-> FALSE,             \* the server has answered START_MONITOR
           sentLines |-> <<>>,           \* log lines the server has sent, in order
           chan |-> <<>>,                \* entries delivered on the channel, in order
           chanReturned |-> FALSE, chanClosed |-> FALSE,
           ctxDone |-> FALSE,
           reconnected |-> FALSE,        \* a reconnect has installed a new lr.conn
           unlocked |-> FALSE]           \* lr.conn has been used without lr.mutex

(* the server answers START_MONITOR *)
LogServerOK ==
  /\ lr.pc # "none" /\ ~lr.okSent /\ lr.open[1]
  /\ lr' = [lr EXCEPT !.okSent = TRUE, !.wire[1] = @ \o OKLine]
  /\ UNCHANGED <<sessionVars, cip, backoff, monitor>>

(* the server sends its next log line on the reader's current connection *)
LogServerLine ==
  /\ lr.pc # "none" /\ lr.okSent
  /\ Len(lr.sentLines) < MaxLines
  /\ lr.connected /\ lr.open[lr.conn] /\ ~lr.eof[lr.conn]
  /\ LET k == Len(lr.sentLines) + 1 IN
     lr' = [lr EXCEPT !.sentLines = Append(@, k), !.wire[lr.conn] = @ \o LogLine(k)]
  /\ UNCHANGED <<sessionVars, cip, backoff, monitor>>

(* the server closes a connection *)
LogServerClose ==
  /\ lr.pc # "none" /\ lr.okSent
  /\ \E c \in Conns : lr.open[c] /\ ~lr.eof[c] /\ lr' = [lr EXCEPT !.eof[c] = TRUE]
  /\ UNCHANGED <<sessionVars, cip, backoff, monitor>>

(* the read deadline set when the connection was established passes *)
LogDeadline ==
  /\ lr.pc # "none"
  /\ \E c \in Conns : lr.open[c] /\ ~lr.expired[c] /\ lr' = [lr EXCEPT !.expired[c] = TRUE]
  /\ UNCHANGED <<sessionVars, cip, backoff, monitor>>

LogCancel ==
  /\ lr.pc # "none" /\ ~lr.ctxDone
  /\ lr' = [lr EXCEPT !.ctxDone = TRUE]
  /\ UNCHANGED <<sessionVars, cip, backoff, monitor>>

(* StartRemoteLogMonitor: reader.ReadString('\n') on a bufio.Reader of its own;
   with the response line it returns an error, or calls ReadLogs, whose
   goroutine creates a new bufio.Reader on lr.conn *)
LogMonitorRead ==
  /\ lr.pc = "mon_read"
  /\ LET n == IndexOfNL(lr.rbuf) IN
     IF n # 0
       THEN IF HasPrefixOK(TrimSpace(SubSeq(lr.rbuf, 1, n)))
              THEN lr' = [lr EXCEPT !.pc = "loop", !.rbuf = <<>>, !.readerConn = lr.conn,
                                    !.chanReturned = TRUE, !.unlocked = TRUE]
              ELSE lr' = [lr EXCEPT !.pc = "failed", !.rbuf = <<>>]
     ELSE IF lr.expired[lr.conn] \/ (lr.wire[lr.conn] = <<>> /\ lr.eof[lr.conn])
       THEN lr' = [lr EXCEPT !.pc = "failed", !.rbuf = <<>>]
     ELSE /\ lr.wire[lr.conn] # <<>>
          /\ \E k \in 1..Len(lr.wire[lr.conn]) :
               lr' = [lr EXCEPT !.rbuf = @ \o SubSeq(lr.wire[lr.conn], 1, k),
                                !.wire[lr.conn] = Drop(@, k)]
  /\ UNCHANGED <<sessionVars, cip, backoff, monitor>>

(* the goroutine returns: close(logChan) and lr.Close() *)
Exited(l) ==
  [l EXCEPT !.pc = "exited", !.chanClosed = TRUE,
            !.open = IF l.connected /\ l.conn # 0 THEN [@ EXCEPT ![l.conn] = FALSE] ELSE @,
            !.connected = FALSE]

(* the outer select of the loop *)
LogSelect ==
  /\ lr.pc = "loop"
  /\ lr' = IF CtxDone(lr) THEN Exited(lr) ELSE [lr EXCEPT !.pc = "read"]
  /\ UNCHANGED <<sessionVars, cip, backoff, monitor>>

(* reader.ReadString('\n'): a buffered line, else one Read of the wrapped
   connection (any part of what has arrived), an error, or EOF *)
LogRead ==
  /\ lr.pc = "read"
  /\ LET n == IndexOfNL(lr.rbuf)  c == lr.readerConn IN
     IF n # 0
       THEN LET line == SubSeq(lr.rbuf, 1, n) IN
            lr' = [lr EXCEPT !.rbuf = Drop(@, n), !.line = line,
                             !.pc = IF TrimSpace(line) = <<>> THEN "loop" ELSE "send"]
     ELSE IF ~lr.open[c] \/ lr.expired[c]
       THEN lr' = [lr EXCEPT !.pc = "reconnect", !.rbuf = <<>>]
     ELSE IF lr.wire[c] # <<>>
       THEN \E k \in 1..Len(lr.wire[c]) :
              lr' = [lr EXCEPT !.rbuf = @ \o SubSeq(lr.wire[c], 1, k), !.wire[c] = Drop(@, k)]
     ELSE /\ lr.eof[c]
          /\ lr' = Exited(lr)
  /\ UNCHANGED <<sessionVars, cip, backoff, monitor>>

(* the inner select: the entry is sent, or the cancellation is taken *)
LogSend ==
  /\ lr.pc = "send"
  /\ \/ lr' = [lr EXCEPT !.chan = Append(@, lr.line[1] - Digit0), !.pc = "loop"]
     \/ CtxDone(lr) /\ lr' = Exited(lr)
  /\ UNCHANGED <<sessionVars, cip, backoff, monitor>>

(* reconnect(): close lr.conn, dial and authenticate; on success install the
   new connection in lr.conn (its read deadline is armed for the OK) *)
LogReconnect ==
  /\ lr.pc = "reconnect"
  /\ LET shut == [lr EXCEPT !.pc = "sleep", !.connected = FALSE,
                            !.open = IF lr.conn # 0 THEN [@ EXCEPT ![lr.conn] = FALSE] ELSE @]
     IN \/ lr' = shut
        \/ \E c \in Conns :
             /\ c = lr.conn + 1
             /\ lr' = [shut EXCEPT !.conn = c, !.connected = TRUE, !.open[c] = TRUE,
                                   !.reconnected = TRUE]
  /\ UNCHANGED <<sessionVars, cip, backoff, monitor>>

(* time.Sleep(1 * time.Second); continue *)
LogSleep ==
  /\ lr.pc = "sleep"
  /\ lr' = [lr EXCEPT !.pc = "loop"]
  /\ UNCHANGED <<sessionVars, cip, backoff, monitor>>

LogGoroutine == LogMonitorRead \/ LogSelect \/ LogRead \/ LogSend \/ LogReconnect \/ LogSleep

NextLog ==
  \/ LogServerOK
  \/ LogServerLine
  \/ LogServerClose
  \/ LogDeadline
  \/ LogCancel
  \/ LogMonitorRead
  \/ LogSelect
  \/ LogRead
  \/ LogSend
  \/ LogReconnect
  \/ LogSleep

SpecLog == InitLog /\ [][NextLog]_vars

(* the reader's code keeps running and armed deadlines pass *)
SpecLogFair == SpecLog /\ WF_vars(LogGoroutine) /\ WF_vars(LogDeadline)

(* C37: the entries delivered on the channel are, in order and without loss or
   repetition, the log lines the server has sent after its OK: at every moment
   the delivered sequence is a prefix of the sent sequence, however the bytes
   were split into or merged across reads. *)
C37_DeliveredInOrderNoLoss == IsPrefix(lr.chan, lr.sentLines)

(* C38: once the context is cancelled after the channel was returned, the
   channel is eventually closed and the reader is no longer connected. *)
C38_CancelClosesChannel ==
  (lr.ctxDone /\ lr.chanReturned) ~> (lr.chanClosed /\ ~lr.connected)

C38_Witness ==
  /\ lr.ctxDone /\ lr.chanReturned /\ lr.chanClosed /\ ~lr.connected
  /\ lr.reconnected /\ lr.chan # <<>>

(* C40: after a successful reconnect the loop reads from the connection that
   reconnect installed in lr.conn, and lr.conn is only used under lr.mutex. *)
C40_LoopReadsInstalledConn ==
  /\ (lr.pc = "read" /\ lr.reconnected) => lr.readerConn = lr.conn
  /\ ~lr.unlocked
====
